---- MODULE Spec2Model ----
(***************************************************************************)
(* Model of the two Toolkit publish hooks for Maya:                        *)
(*   hooks/iksvy_scan_scene_tk-maya.py            ScanSceneHook.execute    *)
(*   hooks/iksvy_secondary_pre_publish_tk-maya.py PrePublishHook.execute   *)
(*                                                                         *)
(* Python strings that the hooks take apart or put together are modelled   *)
(* as sequences of one-character strings, so that split, basename,         *)
(* replace, upper and + are computed, not assumed.  Values the hooks only  *)
(* pass along (resolved paths, error messages, output names) are TLA+      *)
(* strings.                                                                *)
(***************************************************************************)
EXTENDS Integers, Sequences, FiniteSets, TLC

VARIABLES
    \* ---- the Maya scene and the Toolkit configuration (the hooks' inputs)
    scene_name,        \* cmds.file(query=True, sn=True); <<>> when never saved
    sceneGeometry,     \* cmds.ls(geometry=True, noIntermediate=True) is non-empty
    sceneCameras,      \* the cameras of the scene, [name, perspective]
    sceneGroups,       \* root transforms, [name, meshes]
    sceneLayers,       \* cmds.ls(type="renderLayer")
    secondary_outputs, \* app.get_setting("secondary_outputs"), [tank_type]
    work_template_fields, \* work_template.get_fields(scene_name), [ok, version]
    \* ---- ScanSceneHook.execute
    pc,                \* position in execute
    items,             \* the local list `items`
    cameras,           \* the local list `cameras`
    k,                 \* index of the next iteration of the render loops
    fields,            \* the local `fields` of the last iteration
    paths_existe,      \* the local `paths_existe` of the last iteration
    paths,             \* the local `paths` of the last iteration
    outcome,           \* "running", "returned" or "raised"
    exc,               \* the exception raised, "" when none
    \* ---- PrePublishHook.execute
    tasks,             \* the argument `tasks`
    abcExport,         \* mel.eval('exists "AbcExport"')
    sceneObjects,      \* item name -> "missing", "empty" or "meshes"
    vpc,               \* position in execute
    ti,                \* index of the next task of the loop
    errors,            \* the local `errors` of the last iteration
    results,           \* the local list `results`
    progress,          \* the calls made to progress_cb, in order
    \* ---- the rendered_image name as a function of its inputs
    nameIn,            \* two (camera, layer, scene file name) triples
    nameOut            \* the item names built from them, <<>> before

scanVars == <<scene_name, sceneGeometry, sceneCameras, sceneGroups, sceneLayers,
              secondary_outputs, work_template_fields, pc, items, cameras, k, fields,
              paths_existe, paths, outcome, exc>>
valVars == <<tasks, abcExport, sceneObjects, vpc, ti, errors, results, progress>>
nameVars == <<nameIn, nameOut>>
vars == <<scanVars, valVars, nameVars>>

----------------------------------------------------------------------------
(* Bounds of the model *)

MaxOutputs == 2     \* length of the secondary_outputs setting
MaxIterations == 4  \* iterations of the scan hook's render loops
MaxTasks == 3       \* length of the task list given to the pre-publish hook

----------------------------------------------------------------------------
(* Python string operations on character sequences *)

LowerCase == <<"a","b","c","d","e","f","g","h","i","j","k","l","m",
               "n","o","p","q","r","s","t","u","v","w","x","y","z">>
UpperCase == <<"A","B","C","D","E","F","G","H","I","J","K","L","M",
               "N","O","P","Q","R","S","T","U","V","W","X","Y","Z">>
Digits == <<"0","1","2","3","4","5","6","7","8","9">>

Range(s) == {s[i] : i \in DOMAIN s}

\* str.isalnum on one character
IsAlnum(c) == c \in Range(LowerCase) \cup Range(UpperCase) \cup Range(Digits)

\* str.upper on one character
Upper(c) ==
    IF c \in Range(LowerCase)
    THEN UpperCase[CHOOSE i \in DOMAIN LowerCase : LowerCase[i] = c]
    ELSE c

\* index of the first occurrence of character c in s, 0 when absent
RECURSIVE FindFrom(_, _, _)
FindFrom(s, c, i) ==
    IF i > Len(s) THEN 0
    ELSE IF s[i] = c THEN i
    ELSE FindFrom(s, c, i + 1)

\* s.split(c)[0]
SplitFirst(s, c) ==
    LET i == FindFrom(s, c, 1)
    IN IF i = 0 THEN s ELSE SubSeq(s, 1, i - 1)

\* s.split(c), the list of pieces
RECURSIVE Split(_, _)
Split(s, c) ==
    LET i == FindFrom(s, c, 1)
    IN IF i = 0 THEN <<s>>
       ELSE <<SubSeq(s, 1, i - 1)>> \o Split(SubSeq(s, i + 1, Len(s)), c)

\* s starts with t at position i
MatchAt(s, t, i) ==
    /\ i + Len(t) - 1 <= Len(s)
    /\ \A j \in 1..Len(t) : s[i + j - 1] = t[j]

\* s.replace(old, new) from position i on, old non-empty
RECURSIVE ReplaceFrom(_, _, _, _)
ReplaceFrom(s, old, new, i) ==
    IF i > Len(s) THEN <<>>
    ELSE IF MatchAt(s, old, i)
    THEN new \o ReplaceFrom(s, old, new, i + Len(old))
    ELSE <<s[i]>> \o ReplaceFrom(s, old, new, i + 1)

Replace(s, old, new) == ReplaceFrom(s, old, new, 1)

----------------------------------------------------------------------------
(* os.path on POSIX paths *)

Cwd == <<"/","w">>

\* posixpath.normpath of an absolute path, on its components
RECURSIVE NormComps(_, _)
NormComps(comps, acc) ==
    IF comps = <<>> THEN acc
    ELSE LET c == Head(comps)
         IN IF c = <<>> \/ c = <<".">>
            THEN NormComps(Tail(comps), acc)
            ELSE IF c = <<".",".">>
            THEN NormComps(Tail(comps),
                           IF acc = <<>> THEN acc ELSE SubSeq(acc, 1, Len(acc) - 1))
            ELSE NormComps(Tail(comps), Append(acc, c))

RECURSIVE JoinComps(_)
JoinComps(comps) ==
    IF comps = <<>> THEN <<>>
    ELSE <<"/">> \o Head(comps) \o JoinComps(Tail(comps))

\* os.path.abspath
Abspath(p) ==
    LET full == IF p # <<>> /\ p[1] = "/" THEN p ELSE Cwd \o <<"/">> \o p
        comps == NormComps(Split(full, "/"), <<>>)
    IN IF comps = <<>> THEN <<"/">> ELSE JoinComps(comps)

\* index of the last occurrence of c in s, 0 when absent
RECURSIVE RFind(_, _, _)
RFind(s, c, i) ==
    IF i = 0 THEN 0
    ELSE IF s[i] = c THEN i
    ELSE RFind(s, c, i - 1)

\* os.path.basename
Basename(p) == SubSeq(p, RFind(p, "/", Len(p)) + 1, Len(p))

----------------------------------------------------------------------------
(* String constants of the scan hook *)

Persp == <<"p","e","r","s","p">>
DefaultRenderLayer == <<"d","e","f","a","u","l","t","R","e","n","d","e","r","L","a","y","e","r">>
MasterLayer == <<"m","a","s","t","e","r","L","a","y","e","r">>
CamPrefix == <<"c","a","m">>
WorkFileType == "work_file"
GeometryType == "geometry"
CameraType == "camera"
MeshGroupType == "mesh_group"
RenderedImageType == "rendered_image"
AllSceneGeometry == <<"A","l","l"," ","S","c","e","n","e"," ","G","e","o","m","e","t","r","y">>
RenderedImageTankType == "Rendered Image"
SaveFirstError == "TankError: Please Save your file before Publishing"
GetFieldsError == "TankError: get_fields"
IndexError == "IndexError: list index out of range"

----------------------------------------------------------------------------
(* The scenes, configurations and resolver answers the model draws from *)

SceneNames ==
    { <<>>,
      <<"/","p","/","s","c",".","v","1",".","m","a">>,
      <<"/","p","/","m","_","s",".","m","a">>,
      <<"s",".","m","a">> }

\* name (as listCameras gives it) and kind of each camera a scene may hold
CameraUniverse ==
    << [name |-> Persp, perspective |-> TRUE],
       [name |-> <<"t","o","p">>, perspective |-> FALSE],
       [name |-> <<"s","h">>, perspective |-> TRUE],
       [name |-> <<"a","b">>, perspective |-> TRUE] >>

LayerUniverse == << DefaultRenderLayer, <<"b","g">>, <<"f","g">> >>

GroupUniverse ==
    << [name |-> <<"|","g","1">>, meshes |-> TRUE],
       [name |-> <<"|","g","2">>, meshes |-> FALSE] >>

TankTypes == {RenderedImageTankType, "Alembic Cache"}

WorkTemplateResults == { [ok |-> FALSE, version |-> 0], [ok |-> TRUE, version |-> 8] }

\* answers of paths_from_template and of abstract_paths_from_template
ExactResults == { <<>>, <<"f.0001.png">>, <<"f.0001.png", "f.0002.png">> }
AbstractResults == { <<>>, <<"f.%04d.png", "g.%04d.png">> }

\* the sub-sequences of u, in u's order
SubLists(u) == { SelectSeq(u, LAMBDA x : x \in S) : S \in SUBSET Range(u) }

SeqsUpTo(S, n) == UNION { [1..m -> S] : m \in 0..n }

NoFields == [name |-> <<>>]

ScanInit ==
    /\ scene_name \in SceneNames
    /\ sceneGeometry \in BOOLEAN
    /\ sceneCameras \in SubLists(CameraUniverse)
    /\ sceneGroups \in {<<>>, GroupUniverse}
    /\ sceneLayers \in SubLists(LayerUniverse)
    /\ secondary_outputs \in SeqsUpTo([tank_type : TankTypes], MaxOutputs)
    /\ work_template_fields \in WorkTemplateResults
    /\ Len(secondary_outputs) * Len(sceneCameras) * Len(sceneLayers) <= MaxIterations
    /\ pc = "start"
    /\ items = <<>>
    /\ cameras = <<>>
    /\ k = 1
    /\ fields = NoFields
    /\ paths_existe = <<>>
    /\ paths = <<>>
    /\ outcome = "running"
    /\ exc = ""

\* the scan hook is not running (sceneGeometry is left to the hook that runs)
ScanIdle ==
    /\ scene_name = <<>>
    /\ sceneCameras = <<>>
    /\ sceneGroups = <<>>
    /\ sceneLayers = <<>>
    /\ secondary_outputs = <<>>
    /\ work_template_fields = [ok |-> FALSE, version |-> 0]
    /\ pc = "idle"
    /\ items = <<>>
    /\ cameras = <<>>
    /\ k = 1
    /\ fields = NoFields
    /\ paths_existe = <<>>
    /\ paths = <<>>
    /\ outcome = "running"
    /\ exc = ""

sceneVars == <<scene_name, sceneGeometry, sceneCameras, sceneGroups, sceneLayers,
               secondary_outputs, work_template_fields>>

----------------------------------------------------------------------------
(* ScanSceneHook.execute *)

\* faulty variant: the test is `scene_name is None`, which the empty string passes
NotSavedIsNone(sn) == FALSE

\* `not scene_name`
NotSaved(sn) == sn = <<>>

\* name = os.path.basename(os.path.abspath(scene_name))
SceneFileName(sn) == Basename(Abspath(sn))

\* faulty variant: cmds.listCameras() without p=True lists every camera
ListAllCameras(cams) == [i \in DOMAIN cams |-> cams[i].name]

\* cmds.listCameras(p=True): the names of the perspective cameras
ListCameras(cams) ==
    LET persps == SelectSeq(cams, LAMBDA c : c.perspective)
    IN [i \in DOMAIN persps |-> persps[i].name]

\* [cameras for cameras in cmds.listCameras(p=True) if cameras != 'persp']
CamerasToPublish(cams) == SelectSeq(ListCameras(cams), LAMBDA c : c # Persp)

\* [out for out in secondary_outputs if out["tank_type"] == "Rendered Image"]
RenderOutputs(outs) == SelectSeq(outs, LAMBDA o : o.tank_type = RenderedImageTankType)

\* the iterations of the three nested loops, in order
Iterations(outs, cams, layers) ==
    LET C == Len(cams)
        L == Len(layers)
    IN [j \in 1..(Len(outs) * C * L) |->
          [output |-> outs[((j - 1) \div (C * L)) + 1],
           camera |-> cams[(((j - 1) \div L) % C) + 1],
           layer  |-> layers[((j - 1) % L) + 1]]]

RenderLoop == Iterations(RenderOutputs(secondary_outputs), cameras, sceneLayers)

\* layer.replace("defaultRenderLayer", "masterLayer")
NormalizeLayer(layer) == Replace(layer, DefaultRenderLayer, MasterLayer)

\* 'name': name.split('.')[0]
TemplateName(name) == SplitFirst(name, ".")

\* the dictionary `fields`
Fields(camera, layer, name, version) ==
    [camera_name |-> camera, layer_name |-> layer,
     name |-> TemplateName(name), version |-> version]

\* faulty variant: the '_' between camera and layer is left out
RenderedImageNameNoSeparator(camera, layer) ==
    CamPrefix \o <<Upper(camera[1])>> \o Tail(camera) \o layer

\* 'cam' + camera[0].upper() + camera[1:] + '_' + layer
RenderedImageName(camera, layer) ==
    CamPrefix \o <<Upper(camera[1])>> \o Tail(camera) \o <<"_">> \o layer

\* `if paths_existe:`
HasMatch(pe, pa) == pe # <<>>

\* faulty variant: the path is taken from the list that was tested, paths_existe[0]
FirstPathOfExisting(pe, pa) == pe[1]

\* 'path': paths[0]
FirstPath(pe, pa) == pa[1]

\* paths[0] raises IndexError on an empty list
FirstPathRaises(pe, pa) == pa = <<>>

Raise(e) ==
    /\ outcome' = "raised"
    /\ exc' = e
    /\ pc' = "done"

\* lines 58-69: the scene name, the precondition, the work_file item
Start ==
    /\ pc = "start"
    /\ IF NotSaved(scene_name)
       THEN /\ Raise(SaveFirstError)
            /\ UNCHANGED items
       ELSE /\ items' = Append(items, [type |-> WorkFileType,
                                       name |-> SceneFileName(scene_name)])
            /\ pc' = "geometry"
            /\ UNCHANGED <<outcome, exc>>
    /\ UNCHANGED <<valVars, nameVars, sceneVars, cameras, k, fields, paths_existe, paths>>

\* lines 73-74: one geometry item when the scene holds geometry
Geometry ==
    /\ pc = "geometry"
    /\ items' = IF sceneGeometry
                THEN Append(items, [type |-> GeometryType, name |-> AllSceneGeometry])
                ELSE items
    /\ pc' = "cameras"
    /\ UNCHANGED <<valVars, nameVars, sceneVars, cameras, k, fields, paths_existe, paths, outcome, exc>>

\* lines 80-82: one camera item per listed camera other than persp
Cameras ==
    /\ pc = "cameras"
    /\ cameras' = CamerasToPublish(sceneCameras)
    /\ items' = items \o [i \in DOMAIN cameras' |->
                            [type |-> CameraType, name |-> cameras'[i]]]
    /\ pc' = "groups"
    /\ UNCHANGED <<valVars, nameVars, sceneVars, k, fields, paths_existe, paths, outcome, exc>>

\* lines 87-90: one mesh_group item per root group with mesh descendants
Groups ==
    /\ pc = "groups"
    /\ LET withMeshes == SelectSeq(sceneGroups, LAMBDA g : g.meshes)
       IN items' = items \o [i \in DOMAIN withMeshes |->
                               [type |-> MeshGroupType, name |-> withMeshes[i].name]]
    /\ pc' = "templates"
    /\ UNCHANGED <<valVars, nameVars, sceneVars, cameras, k, fields, paths_existe, paths, outcome, exc>>

\* lines 95-110: the work template's fields, the version, the render outputs
Templates ==
    /\ pc = "templates"
    /\ IF work_template_fields.ok
       THEN /\ pc' = "render"
            /\ UNCHANGED <<outcome, exc>>
       ELSE Raise(GetFieldsError)
    /\ UNCHANGED <<valVars, nameVars, sceneVars, items, cameras, k, fields, paths_existe, paths>>

\* lines 135-181: one iteration of the camera and layer loops
RenderStep ==
    /\ pc = "render"
    /\ k <= Len(RenderLoop)
    /\ LET camera == RenderLoop[k].camera
           layer == NormalizeLayer(RenderLoop[k].layer)
           name == SceneFileName(scene_name)
       IN \E pe \in ExactResults, pa \in AbstractResults :
            /\ fields' = Fields(camera, layer, name, work_template_fields.version)
            /\ paths_existe' = pe
            /\ paths' = pa
            /\ IF HasMatch(pe, pa)
               THEN IF FirstPathRaises(pe, pa)
                    THEN /\ Raise(IndexError)
                         /\ UNCHANGED <<items, k>>
                    ELSE /\ items' = Append(items,
                                [type |-> RenderedImageType,
                                 name |-> RenderedImageName(camera, layer),
                                 other_params |-> [path |-> FirstPath(pe, pa)]])
                         /\ k' = k + 1
                         /\ UNCHANGED <<pc, outcome, exc>>
               ELSE /\ k' = k + 1
                    /\ UNCHANGED <<items, pc, outcome, exc>>
    /\ UNCHANGED <<valVars, nameVars, sceneVars, cameras>>

\* lines 182-183: return items
Return ==
    /\ pc = "render"
    /\ k > Len(RenderLoop)
    /\ outcome' = "returned"
    /\ pc' = "done"
    /\ UNCHANGED <<valVars, nameVars, sceneVars, items, cameras, k, fields, paths_existe, paths, exc>>

----------------------------------------------------------------------------
(* String constants of the pre-publish hook *)

AlembicCacheOutput == "alembic_cache"
RenderedImageOutput == "rendered_image"
CameraOutput == "camera"
NoAbcExportError == "Could not find the AbcExport command needed to publish Alembic caches!"
NoGeometryError == "The scene does not contain any geometry!"
GroupMissingError == "This group couldn't be found in the scene!"
NoMeshesError == "This group doesn't appear to contain any meshes!"
UnknownOutputError == "Don't know how to publish this item!"

----------------------------------------------------------------------------
(* The task lists and scenes the model draws from *)

GroupNames == { GroupUniverse[i].name : i \in DOMAIN GroupUniverse }

TaskUniverse ==
    { [item |-> [type |-> MeshGroupType, name |-> GroupUniverse[1].name],
       output |-> [name |-> AlembicCacheOutput]],
      [item |-> [type |-> MeshGroupType, name |-> GroupUniverse[2].name],
       output |-> [name |-> AlembicCacheOutput]],
      [item |-> [type |-> RenderedImageType, name |-> <<"c","a","m","S","h","_","b","g">>],
       output |-> [name |-> RenderedImageOutput]],
      [item |-> [type |-> CameraType, name |-> <<"s","h">>],
       output |-> [name |-> CameraOutput]],
      [item |-> [type |-> GeometryType, name |-> AllSceneGeometry],
       output |-> [name |-> "obj_export"]] }

ObjectStates == {"missing", "empty", "meshes"}

ValInit ==
    /\ tasks \in SeqsUpTo(TaskUniverse, MaxTasks)
    /\ abcExport \in BOOLEAN
    /\ sceneGeometry \in BOOLEAN
    /\ sceneObjects \in [GroupNames -> ObjectStates]
    /\ vpc = "loop"
    /\ ti = 1
    /\ errors = <<>>
    /\ results = <<>>
    /\ progress = <<>>

\* the pre-publish hook is not running
ValIdle ==
    /\ tasks = <<>>
    /\ abcExport = FALSE
    /\ sceneObjects = <<>>
    /\ vpc = "idle"
    /\ ti = 1
    /\ errors = <<>>
    /\ results = <<>>
    /\ progress = <<>>

----------------------------------------------------------------------------
(* PrePublishHook.execute *)

\* cmds.objExists(item["name"])
ObjExists(name) == sceneObjects[name] # "missing"

\* cmds.ls(item["name"], dag=True, type="mesh")
HasMeshes(name) == sceneObjects[name] = "meshes"

\* faulty variant: the mesh check is an `if`, not an `elif`
ValidateAlembicCacheNoElif(item) ==
    (IF ~abcExport THEN <<NoAbcExportError>> ELSE <<>>)
    \o (IF ~sceneGeometry THEN <<NoGeometryError>> ELSE <<>>)
    \o (IF ~ObjExists(item.name) THEN <<GroupMissingError>> ELSE <<>>)
    \o (IF ~HasMeshes(item.name) THEN <<NoMeshesError>> ELSE <<>>)

\* __validate_item_for_alembic_cache_publish
ValidateAlembicCache(item) ==
    (IF ~abcExport THEN <<NoAbcExportError>> ELSE <<>>)
    \o (IF ~sceneGeometry THEN <<NoGeometryError>> ELSE <<>>)
    \o (IF ~ObjExists(item.name) THEN <<GroupMissingError>>
        ELSE IF ~HasMeshes(item.name) THEN <<NoMeshesError>>
        ELSE <<>>)

\* __validate_item_for_rendered_image_publish
ValidateRenderedImage(item) == <<>>

\* __validate_item_for_camera
ValidateCamera(item) == <<>>

\* faulty variant: an unknown output name is let through without an error
ValidateTaskUnknownPasses(task) ==
    IF task.output.name = AlembicCacheOutput THEN ValidateAlembicCache(task.item)
    ELSE <<>>

\* the if/elif/else on output["name"]: the errors of one task
ValidateTask(task) ==
    IF task.output.name = AlembicCacheOutput THEN ValidateAlembicCache(task.item)
    ELSE IF task.output.name = RenderedImageOutput THEN ValidateRenderedImage(task.item)
    ELSE IF task.output.name = CameraOutput THEN ValidateCamera(task.item)
    ELSE <<UnknownOutputError>>

\* faulty variant: off by one, `if len(errors) > 1:`
HasErrorsMoreThanOne(errs) == Len(errs) > 1

\* `if len(errors) > 0:`
HasErrors(errs) == Len(errs) > 0

\* progress_cb(0, "Validating", task)
ReportStart(log, task) == Append(log, [percent |-> 0, msg |-> "Validating", task |-> task])

\* faulty variant: the closing progress_cb(100) is missing
ReportDoneMissing(log) == log

\* progress_cb(100)
ReportDone(log) == Append(log, [percent |-> 100])

\* lines 83-109: one iteration of the loop over the tasks
ValidateStep ==
    /\ vpc = "loop"
    /\ ti <= Len(tasks)
    /\ LET task == tasks[ti]
           errs == ValidateTask(task)
       IN /\ errors' = errs
          /\ results' = IF HasErrors(errs)
                        THEN Append(results, [task |-> task, errors |-> errs])
                        ELSE results
          /\ progress' = ReportDone(ReportStart(progress, task))
    /\ ti' = ti + 1
    /\ UNCHANGED <<scanVars, nameVars, tasks, abcExport, sceneObjects, vpc>>

\* line 111: return results
ValidateReturn ==
    /\ vpc = "loop"
    /\ ti > Len(tasks)
    /\ vpc' = "done"
    /\ UNCHANGED <<scanVars, nameVars, tasks, abcExport, sceneObjects, ti, errors,
                   results, progress>>

----------------------------------------------------------------------------
(* The rendered_image item name as a function of camera, layer and scene *)

NameCameras == { <<"a">>, <<"a","b">>, <<"a","_","b">>, <<"A","b">> }
NameLayers == { DefaultRenderLayer, <<"c">>, <<"b","c">>, <<"b","_","c">> }
NameScenes == SceneNames \ {<<>>}
NameInputs == [camera : NameCameras, layer : NameLayers, scene_name : NameScenes]

\* the (camera name, layer name, sanitized scene name) of an input: its `fields`
NameFields(t) ==
    Fields(t.camera, NormalizeLayer(t.layer), SceneFileName(t.scene_name), 0)

NameInit ==
    /\ nameIn \in { p \in NameInputs \X NameInputs : NameFields(p[1]) # NameFields(p[2]) }
    /\ nameOut = <<>>

\* no name is being built
NameIdle ==
    /\ nameIn = <<>>
    /\ nameOut = <<>>

\* lines 139 and 173, for both inputs
BuildNames ==
    /\ nameIn # <<>>
    /\ nameOut = <<>>
    /\ nameOut' = [i \in 1..2 |->
                     RenderedImageName(nameIn[i].camera, NormalizeLayer(nameIn[i].layer))]
    /\ UNCHANGED <<scanVars, valVars, nameIn>>

----------------------------------------------------------------------------
(* Specifications *)

\* one run of ScanSceneHook.execute
Init == ScanInit /\ ValIdle /\ NameIdle
Next == Start \/ Geometry \/ Cameras \/ Groups \/ Templates \/ RenderStep \/ Return
Spec == Init /\ [][Next]_vars

\* one run of PrePublishHook.execute
InitValidate == ScanIdle /\ ValInit /\ NameIdle
NextValidate == ValidateStep \/ ValidateReturn
SpecValidate == InitValidate /\ [][NextValidate]_vars

\* the rendered_image name of two inputs
InitNames == ScanIdle /\ sceneGeometry = FALSE /\ ValIdle /\ NameInit
NextNames == BuildNames
SpecNames == InitNames /\ [][NextNames]_vars

----------------------------------------------------------------------------
(* Helpers of the properties *)

Count(seq, x) == Cardinality({i \in DOMAIN seq : seq[i] = x})

ItemsOfType(t) == SelectSeq(items, LAMBDA it : it.type = t)

\* an iteration of the render loops is about to run
AtRenderStep == pc = "render" /\ k <= Len(RenderLoop)

KnownOutputs == {AlembicCacheOutput, RenderedImageOutput, CameraOutput}

\* the percentages progress_cb was called with, in order
Percents == [i \in DOMAIN progress |-> progress[i].percent]

\* 0, 100 once per task
RECURSIVE ZeroHundred(_)
ZeroHundred(n) == IF n = 0 THEN <<>> ELSE <<0, 100>> \o ZeroHundred(n - 1)

NoUnderscore(s) == \A i \in DOMAIN s : s[i] # "_"

\* two camera names that differ by more than the case of their first character
DifferBeyondFirstCase(a, b) == Upper(a[1]) # Upper(b[1]) \/ Tail(a) # Tail(b)

----------------------------------------------------------------------------
(* Properties of ScanSceneHook.execute, under Spec *)

\* C1: when the scene has no saved path, execute ends in the "Please Save your
\* file" error with an empty item list: no work_file item, no camera list, no
\* template query and no rendered_image iteration took place.
C1_UnsavedSceneAborts ==
    (scene_name = <<>> /\ pc # "start") =>
        /\ pc = "done"
        /\ outcome = "raised"
        /\ exc = SaveFirstError
        /\ items = <<>>
        /\ cameras = <<>>
        /\ fields = NoFields

\* C1 witness: the scan of an unsaved scene has ended
C1_Witness == scene_name = <<>> /\ pc = "done" /\ outcome = "raised"

\* C2 as stated, for the iterations that end without an exception: an
\* iteration whose exact query returns no path appends nothing, and one whose
\* exact query returns paths appends one rendered_image item whose path is the
\* first of those paths.
C2_PathIsFirstExistingPath ==
    [][(AtRenderStep /\ outcome' = "running") =>
        /\ paths_existe' = <<>> => items' = items
        /\ paths_existe' # <<>> =>
             /\ Len(items') = Len(items) + 1
             /\ items'[Len(items')].type = RenderedImageType
             /\ items'[Len(items')].other_params.path = paths_existe'[1]]_vars

\* C2 as amended: an iteration of the loops (one Rendered Image output, one
\* camera, one layer) whose exact query returns no path appends nothing; one
\* whose exact query returns paths appends exactly one rendered_image item,
\* whose path is the first path of the ABSTRACT query, and when the abstract
\* query returned no path the scan ends in an IndexError instead.
C2_PathIsFirstAbstractPath ==
    [][AtRenderStep =>
        \/ /\ paths_existe' = <<>>
           /\ items' = items
           /\ outcome' = "running"
        \/ /\ paths_existe' # <<>>
           /\ paths' # <<>>
           /\ Len(items') = Len(items) + 1
           /\ SubSeq(items', 1, Len(items)) = items
           /\ items'[Len(items')].type = RenderedImageType
           /\ items'[Len(items')].other_params.path = paths'[1]
           /\ outcome' = "running"
        \/ /\ paths_existe' # <<>>
           /\ paths' = <<>>
           /\ items' = items
           /\ outcome' = "raised"
           /\ exc' = IndexError]_vars

\* C2 witness: the second Rendered Image output has appended a second item for
\* a (camera, layer) pair, carrying the first abstract path, which is not the
\* first existing path
C2_Witness ==
    /\ pc = "render"
    /\ k > 1
    /\ paths_existe # <<>>
    /\ items[Len(items)].type = RenderedImageType
    /\ items[Len(items)].other_params.path = paths[1]
    /\ paths[1] # paths_existe[1]
    /\ \E i \in 1..(Len(items) - 1) :
         /\ items[i].type = RenderedImageType
         /\ items[i].name = items[Len(items)].name

\* C7 as stated: persp is never a camera item and every other camera of the
\* scene, whatever its kind, is exactly one camera item.
C7_EveryOtherCameraListed ==
    outcome = "returned" =>
        \A i \in DOMAIN sceneCameras :
            Count(ItemsOfType(CameraType),
                  [type |-> CameraType, name |-> sceneCameras[i].name])
              = IF sceneCameras[i].name = Persp THEN 0 ELSE 1

\* C7 as amended: persp is never a camera item; every other PERSPECTIVE camera
\* of the scene is exactly one camera item named after it, and a camera that
\* is not a perspective camera (top, front, side) is no item.
C7_EveryOtherPerspectiveCameraListed ==
    outcome = "returned" =>
        /\ \A i \in DOMAIN sceneCameras :
            Count(ItemsOfType(CameraType),
                  [type |-> CameraType, name |-> sceneCameras[i].name])
              = IF sceneCameras[i].perspective /\ sceneCameras[i].name # Persp
                THEN 1 ELSE 0
        /\ \A i \in DOMAIN items :
            items[i].type = CameraType =>
                \E j \in DOMAIN sceneCameras : sceneCameras[j].name = items[i].name

\* C7 witness: a scene with persp, an orthographic camera and another
\* perspective camera has been scanned
C7_Witness ==
    /\ outcome = "returned"
    /\ Len(sceneCameras) >= 3
    /\ \E i \in DOMAIN sceneCameras : sceneCameras[i].name = Persp
    /\ \E i \in DOMAIN sceneCameras : ~sceneCameras[i].perspective
    /\ Len(ItemsOfType(CameraType)) >= 1

\* C8 as stated, for the runs where the work template matches the scene path:
\* the scan of a saved scene always ends by returning its item list.
C8_SavedSceneAlwaysReturns ==
    (pc = "done" /\ scene_name # <<>> /\ work_template_fields.ok) =>
        outcome = "returned"

\* C10 as stated: the 'name' of the field mapping holds alphanumeric characters
\* only.
C10_TemplateNameIsAlphanumeric ==
    fields # NoFields => \A i \in DOMAIN fields.name : IsAlnum(fields.name[i])

----------------------------------------------------------------------------
(* Properties of the rendered_image name, under SpecNames *)

\* C9 as stated: items built from different (camera name, layer name,
\* sanitized scene name) triples never have the same name.
C9_NamesNeverCollide ==
    nameOut # <<>> => nameOut[1] # nameOut[2]

\* C9 as amended: the name is composed from the camera name and the layer name
\* only, the scene name is no part of it: two inputs with the same camera and
\* layer have the same name whatever their scenes.  The composition is
\* collision-free for camera names that hold no '_': two inputs whose cameras
\* differ by more than the case of the first character, or whose layers
\* differ, then have different names.
C9_NamesFromCameraAndLayer ==
    nameOut # <<>> =>
        LET a == nameIn[1]
            b == nameIn[2]
            la == NormalizeLayer(a.layer)
            lb == NormalizeLayer(b.layer)
        IN /\ (a.camera = b.camera /\ la = lb) => nameOut[1] = nameOut[2]
           /\ ( /\ NoUnderscore(a.camera)
                /\ NoUnderscore(b.camera)
                /\ (DifferBeyondFirstCase(a.camera, b.camera) \/ la # lb) )
              => nameOut[1] # nameOut[2]

\* C9 witness: two cameras without '_' whose names would run into the layer
\* names without the separator, and whose names are different
C9_Witness ==
    /\ nameOut # <<>>
    /\ nameIn[1].camera = <<"a">> /\ nameIn[1].layer = <<"b","c">>
    /\ nameIn[2].camera = <<"a","b">> /\ nameIn[2].layer = <<"c">>
    /\ nameOut[1] # nameOut[2]

----------------------------------------------------------------------------
(* Properties of PrePublishHook.execute, under SpecValidate *)

\* C3: the tasks of the result are the tasks whose error list is non-empty,
\* once per occurrence in the input and in the input's order, each with its
\* error list.
C3_ResultIsFailingTasksInOrder ==
    vpc = "done" =>
        LET failing == SelectSeq(tasks, LAMBDA t : ValidateTask(t) # <<>>)
        IN /\ Len(results) = Len(failing)
           /\ \A i \in DOMAIN results :
                /\ results[i].task = failing[i]
                /\ results[i].errors = ValidateTask(failing[i])
                /\ results[i].errors # <<>>

\* C3 witness: three tasks, the first and the last fail, the second passes
C3_Witness ==
    /\ vpc = "done"
    /\ Len(tasks) = 3
    /\ Len(results) = 2
    /\ ValidateTask(tasks[2]) = <<>>
    /\ results[1].task = tasks[1]
    /\ results[2].task = tasks[3]
    /\ tasks[1] # tasks[3]

\* C4: after an alembic_cache task the error list holds the AbcExport error
\* once iff the command is missing, the geometry error once iff the scene has
\* no geometry, the existence error once iff the group is missing, and the
\* no-meshes error once iff the group exists without meshes: never for a
\* missing group.
C4_AlembicChecksIndependent ==
    (ti > 1 /\ tasks[ti - 1].output.name = AlembicCacheOutput) =>
        LET name == tasks[ti - 1].item.name
            n(b) == IF b THEN 1 ELSE 0
        IN /\ Count(errors, NoAbcExportError) = n(~abcExport)
           /\ Count(errors, NoGeometryError) = n(~sceneGeometry)
           /\ Count(errors, GroupMissingError) = n(sceneObjects[name] = "missing")
           /\ Count(errors, NoMeshesError) = n(sceneObjects[name] = "empty")
           /\ Len(errors) = n(~abcExport) + n(~sceneGeometry)
                              + n(sceneObjects[name] # "meshes")

\* C4 witness: all three independent checks failed on a missing group
C4_Witness ==
    /\ ti > 1
    /\ tasks[ti - 1].output.name = AlembicCacheOutput
    /\ errors = <<NoAbcExportError, NoGeometryError, GroupMissingError>>

\* C5: a task with an unknown output name gets exactly the one "Don't know
\* how to publish" error and is the result appended by its iteration, and
\* once execute has returned every task of the list has been validated: each
\* has its progress_cb(0, "Validating", task) call.
C5_UnknownOutputIsOneError ==
    /\ (ti > 1 /\ tasks[ti - 1].output.name \notin KnownOutputs) =>
          /\ errors = <<UnknownOutputError>>
          /\ results # <<>>
          /\ results[Len(results)] =
               [task |-> tasks[ti - 1], errors |-> <<UnknownOutputError>>]
    /\ vpc = "done" =>
          /\ ti = Len(tasks) + 1
          /\ \A i \in DOMAIN tasks :
               /\ 2 * i - 1 \in DOMAIN progress
               /\ progress[2 * i - 1].percent = 0
               /\ progress[2 * i - 1].task = tasks[i]

\* C5 witness: the first task had an unknown output and two more tasks were
\* validated after it
C5_Witness ==
    /\ vpc = "done"
    /\ Len(tasks) = 3
    /\ tasks[1].output.name \notin KnownOutputs
    /\ Len(progress) = 6
    /\ results[1].task = tasks[1]

\* C6 as stated: on an empty task list the result is empty and progress_cb
\* has been called with 0 and then with 100.
C6_EmptyListReportsProgress ==
    (vpc = "done" /\ tasks = <<>>) =>
        /\ results = <<>>
        /\ Percents = <<0, 100>>

\* C6 as amended: progress_cb is called with 0 and then with 100 once for each
\* task, inside the loop; on an empty task list the result is empty and
\* progress_cb is not called at all.
C6_ProgressPerTask ==
    vpc = "done" =>
        /\ Percents = ZeroHundred(Len(tasks))
        /\ tasks = <<>> => (results = <<>> /\ progress = <<>>)

\* C6 witness: execute has returned from an empty task list
C6_Witness == vpc = "done" /\ tasks = <<>> /\ results = <<>> /\ progress = <<>>

====
